---- MODULE Spec2Model ----
(***************************************************************************)
(* The Unless operator of the coordinator's logical functions             *)
(* (src/coordinator/functions/logical/unless.go): UnlessNode.Process,     *)
(* UnlessNode.exclusion and addValuesAtIndeces, run against abstract       *)
(* blocks, step iterators, a controller and a block builder.              *)
(***************************************************************************)
EXTENDS Integers, Sequences, FiniteSets, TLC

\* ---------------------------------------------------------------- bounds
MaxLeft == 3
MaxRight == 2
MaxSteps == 2

\* ------------------------------------------------------------ the inputs
TagVals == {"x", "y", "z"}
\* models.Tags: one label, "tag", with a value.
TagSets == [tag : TagVals]
\* block.SeriesMeta: the tags of one series.
SeriesMetas == [Tags : TagSets]
\* VectorMatching: the On flag and the matching label names.
Matchings == [On : BOOLEAN, MatchingLabels : {<<>>, <<"tag">>}]

SeqsUpTo(S, n) == UNION {[1..k -> S] : k \in 0..n}
Range(s) == {s[i] : i \in 1..Len(s)}

\* The value of the series at (0-based) index idx at (0-based) step t of a
\* left block: every cell of a block holds a different value, so a value in
\* the output names the cell it was read from.
CellValue(t, idx) == t * (MaxLeft + 1) + idx

BlockValues(steps, n) ==
    [t \in 1..steps |-> [i \in 1..n |-> CellValue(t - 1, i - 1)]]

LeftBlocks ==
    {[seriesMeta |-> sm, stepCount |-> s, values |-> BlockValues(s, Len(sm))] :
        sm \in SeqsUpTo(SeriesMetas, MaxLeft), s \in 0..MaxSteps}

RightBlocks ==
    {[seriesMeta |-> sm, stepCount |-> s] :
        sm \in SeqsUpTo(SeriesMetas, MaxRight), s \in 0..MaxSteps}

\* ------------------------------------------------------------ the errors
NoErr == "nil"
errMismatchedBounds == "block bounds are mismatched"
errMismatchedStepCounts == "block step counts are mismatched"
errConflictingTags == "block tags conflict"
\* The errors a collaborator (block, iterator, controller, builder) returns.
CollabErrs == {"errA", "errB"}
Outcomes == {NoErr} \cup CollabErrs

\* --------------------------------------------------- the signature function
TagCode(v) == CASE v = "x" -> 1 [] v = "y" -> 2 [] v = "z" -> 3

\* Tags.IDWithKeys(names...): the identity built from the named labels only.
IDWithKeys(tags, names) ==
    IF "tag" \in Range(names) THEN TagCode(tags.tag) ELSE 0

\* Tags.IDWithExcludes(names...): the identity built from all other labels.
IDWithExcludes(tags, names) ==
    IF "tag" \in Range(names) THEN 0 ELSE TagCode(tags.tag)

\* hashFunc(on, names...)(tags)
hashFunc(on, names, tags) ==
    IF on THEN IDWithKeys(tags, names) ELSE IDWithExcludes(tags, names)

\* idFunction of exclusion: hashFunc(Matching.On, Matching.MatchingLabels...)
idFunction(m, tags) == hashFunc(m.On, m.MatchingLabels, tags)

\* ------------------------------------------------------------------ maps
EmptyMap == [k \in {} |-> 0]
MapPut(m, k, v) == [x \in (DOMAIN m) \cup {k} |-> IF x = k THEN v ELSE m[x]]

\* The orders in which ranging over a map with key set S may visit the keys.
Orderings(S) ==
    {f \in [1..Cardinality(S) -> S] :
        \A i, j \in 1..Cardinality(S) : i # j => f[i] # f[j]}

\* -------------------------------------------------------------- exclusion
\* for idx, meta := range lhs { leftSigs[idFunction(meta.Tags)] = idx }
\* FirstWriteWins is the variant that keeps the entry already present.
FirstWriteWins(m, k, v) == IF k \in DOMAIN m THEN m ELSE MapPut(m, k, v)

RecordLeft(m, k, v) == MapPut(m, k, v)

RECURSIVE BuildLeftSigs(_, _, _, _)
BuildLeftSigs(mt, lhs, i, m) ==
    IF i > Len(lhs) THEN m
    ELSE BuildLeftSigs(mt, lhs, i + 1, RecordLeft(m, idFunction(mt, lhs[i].Tags), i - 1))

\* for _, rs := range rhs { if _, ok := leftSigs[id]; ok { leftSigs[id] = -1 } }
RECURSIVE MarkRight(_, _, _, _)
MarkRight(mt, rhs, j, m) ==
    IF j > Len(rhs) THEN m
    ELSE LET id == idFunction(mt, rhs[j].Tags)
         IN  MarkRight(mt, rhs, j + 1, IF id \in DOMAIN m THEN MapPut(m, id, -1) ELSE m)

\* if v > -1 { uniqueLeft = append(uniqueLeft, v) }
IsSurvivor(v) == v > -1

\* for _, v := range leftSigs {...}, the keys visited in the order `order`.
RECURSIVE CollectUnique(_, _, _)
CollectUnique(m, order, i) ==
    IF i > Len(order) THEN <<>>
    ELSE (IF IsSurvivor(m[order[i]]) THEN <<m[order[i]]>> ELSE <<>>)
         \o CollectUnique(m, order, i + 1)

RECURSIVE Insert(_, _)
Insert(v, s) ==
    IF s = <<>> THEN <<v>>
    ELSE IF v <= Head(s) THEN <<v>> \o s
    ELSE <<Head(s)>> \o Insert(v, Tail(s))

RECURSIVE Sorted(_)
Sorted(s) == IF s = <<>> THEN <<>> ELSE Insert(Head(s), Sorted(Tail(s)))

\* sort.Ints(uniqueLeft); Unsorted is the variant that leaves the slice as is.
Unsorted(s) == s

SortInts(s) == Sorted(s)

\* The signature map after both loops of exclusion.
leftSigsOf(mt, lhs, rhs) == MarkRight(mt, rhs, 1, BuildLeftSigs(mt, lhs, 1, EmptyMap))

\* UnlessNode.exclusion(lhs, rhs), ranging over the map in the order `order`.
exclusion(mt, lhs, rhs, order) ==
    SortInts(CollectUnique(leftSigsOf(mt, lhs, rhs), order, 1))

\* takenMeta: for _, idx := range lIds { append(takenMeta, lSeriesMeta[idx]) }
\* TakenByPosition is the variant that indexes by the position in lIds.
TakenByPosition(lSeriesMeta, ids) == [k \in 1..Len(ids) |-> lSeriesMeta[k]]

TakenMeta(lSeriesMeta, ids) == [k \in 1..Len(ids) |-> lSeriesMeta[ids[k] + 1]]

\* ------------------------------------------------ collaborators' values
NoBlock == [present |-> FALSE, seriesMeta |-> <<>>, cols |-> <<>>, values |-> <<>>]
NoRaise == [stage |-> "none", error |-> NoErr]
NewIter == [opened |-> 0, next |-> 0, pos |-> 0, exhausted |-> FALSE]
NewBuilder == [requested |-> 0, meta |-> <<>>, cols |-> <<>>, appended |-> <<>>, built |-> 0]

\* StepIter.Next(): true while steps remain, false once StepCount() steps were taken.
HasNext(it, blk) == it.pos < blk.stepCount

\* Builder.Build(): the block holding what the builder was given.
Build(b) == [present |-> TRUE, seriesMeta |-> b.meta, cols |-> b.cols, values |-> b.appended]

\* ----------------------------------------------------------- the state
VARIABLES
    lBlock,     \* lhs: the left block (series metadata, step count, values)
    rBlock,     \* rhs: the right block (series metadata, step count)
    matching,   \* c.op.Matching
    pc,         \* the position of Process
    lIter,      \* the left step iterator: opened, Next calls, position, exhausted
    rIter,      \* the right step iterator
    lIds,       \* the survivor indices
    takenMeta,  \* the output series metadata
    index,      \* the row counter of addValuesAtIndeces
    builder,    \* the controller's block builder and the calls it received
    raised,     \* the stage at which a collaborator returned an error, and the error
    err,        \* the error Process returned
    out,        \* the block Process returned
    prevOut     \* the block the previous successful evaluation returned

vars == <<lBlock, rBlock, matching, pc, lIter, rIter, lIds, takenMeta, index,
          builder, raised, err, out, prevOut>>

inputs == <<lBlock, rBlock, matching>>

Fresh ==
    /\ pc = "openLeft"
    /\ lIter = NewIter
    /\ rIter = NewIter
    /\ lIds = <<>>
    /\ takenMeta = <<>>
    /\ index = 0
    /\ builder = NewBuilder
    /\ raised = NoRaise
    /\ err = NoErr
    /\ out = NoBlock

Init ==
    /\ lBlock \in LeftBlocks
    /\ rBlock \in RightBlocks
    /\ matching \in Matchings
    /\ Fresh
    /\ prevOut = NoBlock

\* return nil, e  after the collaborator call `stage` returned the error e
Fail(stage, e) ==
    /\ raised' = [stage |-> stage, error |-> e]
    /\ err' = e
    /\ out' = NoBlock
    /\ pc' = "done"

\* lIter, err := lhs.StepIter(); if err != nil { return nil, err }
OpenLeftIter ==
    /\ pc = "openLeft"
    /\ \E e \in Outcomes :
        IF e = NoErr
        THEN /\ lIter' = [lIter EXCEPT !.opened = @ + 1]
             /\ pc' = "openRight"
             /\ UNCHANGED <<raised, err, out>>
        ELSE /\ Fail("lhs.StepIter", e)
             /\ UNCHANGED lIter
    /\ UNCHANGED <<inputs, rIter, lIds, takenMeta, index, builder, prevOut>>

\* rIter, err := rhs.StepIter(); if err != nil { return nil, err }
OpenRightIter ==
    /\ pc = "openRight"
    /\ \E e \in Outcomes :
        IF e = NoErr
        THEN /\ rIter' = [rIter EXCEPT !.opened = @ + 1]
             /\ pc' = "checkSteps"
             /\ UNCHANGED <<raised, err, out>>
        ELSE /\ Fail("rhs.StepIter", e)
             /\ UNCHANGED rIter
    /\ UNCHANGED <<inputs, lIter, lIds, takenMeta, index, builder, prevOut>>

\* lIter.StepCount() != rIter.StepCount()
OnlyFewerRight(l, r) == l > r

StepCountsMismatch(l, r) == l # r

\* if lIter.StepCount() != rIter.StepCount() { return nil, errMismatchedStepCounts }
CheckStepCounts ==
    /\ pc = "checkSteps"
    /\ IF StepCountsMismatch(lBlock.stepCount, rBlock.stepCount)
       THEN /\ err' = errMismatchedStepCounts
            /\ out' = NoBlock
            /\ pc' = "done"
       ELSE /\ pc' = "select"
            /\ UNCHANGED <<err, out>>
    /\ UNCHANGED <<inputs, lIter, rIter, lIds, takenMeta, index, builder, raised, prevOut>>

\* lIds := c.exclusion(lSeriesMeta, rSeriesMeta), and the projection takenMeta
SelectSurvivors ==
    /\ pc = "select"
    /\ \E order \in Orderings(DOMAIN leftSigsOf(matching, lBlock.seriesMeta, rBlock.seriesMeta)) :
        /\ lIds' = exclusion(matching, lBlock.seriesMeta, rBlock.seriesMeta, order)
        /\ takenMeta' = TakenMeta(lBlock.seriesMeta, lIds')
    /\ pc' = "builder"
    /\ UNCHANGED <<inputs, lIter, rIter, index, builder, raised, err, out, prevOut>>

\* builder, err := c.controller.BlockBuilder(lIter.Meta(), takenMeta)
AcquireBuilder ==
    /\ pc = "builder"
    /\ \E e \in Outcomes :
        IF e = NoErr
        THEN /\ builder' = [builder EXCEPT !.requested = @ + 1, !.meta = takenMeta]
             /\ pc' = "addCols"
             /\ UNCHANGED <<raised, err, out>>
        ELSE /\ builder' = [builder EXCEPT !.requested = @ + 1]
             /\ Fail("BlockBuilder", e)
    /\ UNCHANGED <<inputs, lIter, rIter, lIds, takenMeta, index, prevOut>>

\* The argument of AddCols: lIter.StepCount(), not the local stepCount := len(lIds).
ColsBySurvivorCount(it, ids) == Len(ids)

ColsToAdd(it, ids) == it.stepCount

\* if err := builder.AddCols(lIter.StepCount()); err != nil { return nil, err }
\* AllocateColumnsUnchecked is the variant that goes on after a failed AddCols.
AllocateColumnsUnchecked ==
    /\ pc = "addCols"
    /\ \E e \in Outcomes :
        /\ builder' = [builder EXCEPT !.cols = Append(@, ColsToAdd(lBlock, lIds))]
        /\ raised' = IF e = NoErr THEN raised ELSE [stage |-> "AddCols", error |-> e]
        /\ pc' = "stream"
        /\ UNCHANGED <<err, out>>
    /\ UNCHANGED <<inputs, lIter, rIter, lIds, takenMeta, index, prevOut>>

AllocateColumns ==
    /\ pc = "addCols"
    /\ \E e \in Outcomes :
        /\ builder' = [builder EXCEPT !.cols = Append(@, ColsToAdd(lBlock, lIds))]
        /\ IF e = NoErr
           THEN /\ pc' = "stream"
                /\ UNCHANGED <<raised, err, out>>
           ELSE Fail("AddCols", e)
    /\ UNCHANGED <<inputs, lIter, rIter, lIds, takenMeta, index, prevOut>>

\* for _, idx := range idxArray { builder.AppendValue(index, values[idx]) }
AppendsByPosition(row, values, idxArray) ==
    [k \in 1..Len(idxArray) |-> [row |-> row, value |-> values[k]]]

StepAppends(row, values, idxArray) ==
    [k \in 1..Len(idxArray) |-> [row |-> row, value |-> values[idxArray[k] + 1]]]

\* One iteration of the loop of addValuesAtIndeces: iter.Next() returned true.
StreamStep ==
    /\ pc = "stream"
    /\ HasNext(lIter, lBlock)
    /\ \E e \in Outcomes :
        IF e = NoErr
        THEN /\ builder' = [builder EXCEPT !.appended =
                    @ \o StepAppends(index, lBlock.values[lIter.pos + 1], lIds)]
             /\ index' = index + 1
             /\ UNCHANGED <<raised, err, out, pc>>
        ELSE /\ Fail("Current", e)
             /\ UNCHANGED <<builder, index>>
    /\ lIter' = [lIter EXCEPT !.next = @ + 1, !.pos = @ + 1]
    /\ UNCHANGED <<inputs, rIter, lIds, takenMeta, prevOut>>

\* StreamEndByCount is the variant whose loop is bounded by the step count and
\* never sees Next() return false.
StreamEndByCount ==
    /\ pc = "stream"
    /\ index >= lBlock.stepCount
    /\ pc' = "build"
    /\ UNCHANGED <<inputs, lIter, rIter, lIds, takenMeta, index, builder, raised, err, out, prevOut>>

\* iter.Next() returned false: addValuesAtIndeces returns nil.
StreamEnd ==
    /\ pc = "stream"
    /\ ~HasNext(lIter, lBlock)
    /\ lIter' = [lIter EXCEPT !.next = @ + 1, !.exhausted = TRUE]
    /\ pc' = "build"
    /\ UNCHANGED <<inputs, rIter, lIds, takenMeta, index, builder, raised, err, out, prevOut>>

\* return builder.Build(), nil
Finalize ==
    /\ pc = "build"
    /\ builder' = [builder EXCEPT !.built = @ + 1]
    /\ out' = Build(builder)
    /\ err' = NoErr
    /\ pc' = "done"
    /\ UNCHANGED <<inputs, lIter, rIter, lIds, takenMeta, index, raised, prevOut>>

\* The graph calls Process again on the same blocks: nothing of the previous
\* call is kept by the node; the block it returned is remembered by the caller.
Reevaluate ==
    /\ pc = "done"
    /\ prevOut' = IF err = NoErr THEN out ELSE prevOut
    /\ pc' = "openLeft"
    /\ lIter' = NewIter
    /\ rIter' = NewIter
    /\ lIds' = <<>>
    /\ takenMeta' = <<>>
    /\ index' = 0
    /\ builder' = NewBuilder
    /\ raised' = NoRaise
    /\ err' = NoErr
    /\ out' = NoBlock
    /\ UNCHANGED inputs

Next ==
    \/ OpenLeftIter
    \/ OpenRightIter
    \/ CheckStepCounts
    \/ SelectSurvivors
    \/ AcquireBuilder
    \/ AllocateColumns
    \/ StreamStep
    \/ StreamEnd
    \/ Finalize
    \/ Reevaluate

Spec == Init /\ [][Next]_vars

\* ================================================================ claims
lSM == lBlock.seriesMeta
rSM == rBlock.seriesMeta
NumLeft == Len(lSM)
NumSteps == lBlock.stepCount
Sig(meta) == idFunction(matching, meta.Tags)
IdSet == Range(lIds)

\* exclusion has returned in the current call
Selected == pc = "builder" \/ builder.requested > 0
Succeeded == pc = "done" /\ err = NoErr
OnRight(i) == \E j \in 1..Len(rSM) : Sig(rSM[j]) = Sig(lSM[i + 1])
LaterTwin(i) == \E j \in (i + 1)..(NumLeft - 1) : Sig(lSM[j + 1]) = Sig(lSM[i + 1])

\* no two left series have the same tags
DistinctLeft == \A i, j \in 1..NumLeft : i # j => lSM[i] # lSM[j]

\* C1 (as claimed): the left series at index i survives if and only if no
\* right series has its signature (stated for left series of different tags).
C1_ExclusionIff ==
    Selected /\ DistinctLeft =>
        \A i \in 0..(NumLeft - 1) : (i \in IdSet) <=> ~OnRight(i)

\* C2: when the step counts differ, no builder is requested, AddCols,
\* AppendValue and Build are never called, no block is returned, and once both
\* iterators are open Process returns errMismatchedStepCounts.
C2_StepCountGuard ==
    lBlock.stepCount # rBlock.stepCount =>
        /\ builder = NewBuilder
        /\ out = NoBlock
        /\ pc \notin {"select", "builder", "addCols", "stream", "build"}
        /\ (pc = "done" /\ raised = NoRaise => err = errMismatchedStepCounts)

C2_Witness ==
    /\ pc = "done"
    /\ err = errMismatchedStepCounts
    /\ lBlock.stepCount < rBlock.stepCount
    /\ NumLeft > 0

\* C3: after a successful Process the builder received, for every step t and
\* every survivor position k, exactly the value of left series lIds[k] at step
\* t, at row t, in step-major order, and nothing else.
C3_ValueFidelity ==
    /\ Len(builder.appended) = index * Len(lIds)
    /\ \A t \in 0..(index - 1) : \A k \in 1..Len(lIds) :
          builder.appended[t * Len(lIds) + k] =
              [row |-> t, value |-> lBlock.values[t + 1][lIds[k] + 1]]
    /\ Succeeded => index = NumSteps /\ out.values = builder.appended

C3_Witness ==
    /\ Succeeded
    /\ NumSteps >= 2
    /\ Len(lIds) >= 2
    /\ lIds[1] # 0
    /\ out.values[1].value = lBlock.values[1][lIds[1] + 1]

\* C4: the survivor list is strictly ascending, holds only indices of the left
\* list (never the sentinel -1), and the output series metadata is the left
\* list projected on it.
C4_OrderPreservation ==
    Selected =>
        /\ \A k \in 1..Len(lIds) : lIds[k] \in 0..(NumLeft - 1)
        /\ \A k \in 1..(Len(lIds) - 1) : lIds[k] < lIds[k + 1]
        /\ Len(takenMeta) = Len(lIds)
        /\ \A k \in 1..Len(lIds) : takenMeta[k] = lSM[lIds[k] + 1]
        /\ (out.present => out.seriesMeta = takenMeta)

C4_Witness ==
    /\ Succeeded
    /\ Len(lIds) >= 2
    /\ lIds[1] # 0
    /\ takenMeta[1] # takenMeta[2]

\* C5 (as claimed): with no right series, a successful Process returns the left
\* side verbatim: the same series metadata and every value of every step
\* (stated for left series of different tags and at least one step).
C5_NoOpVerbatim ==
    Succeeded /\ rSM = <<>> /\ DistinctLeft /\ NumSteps >= 1 =>
        /\ out.seriesMeta = lSM
        /\ Len(out.values) = NumSteps * NumLeft
        /\ \A t \in 0..(NumSteps - 1) : \A i \in 1..NumLeft :
              out.values[t * NumLeft + i] = [row |-> t, value |-> lBlock.values[t + 1][i]]

\* C6: of the left series sharing a signature only the one with the highest
\* index can survive; with no right series exactly those survive, so A, B, C
\* with A and C sharing a signature yield B and C.
C6_DuplicateCollapse ==
    Selected =>
        /\ \A i \in 0..(NumLeft - 1) : LaterTwin(i) => i \notin IdSet
        /\ \A i \in 0..(NumLeft - 1) : ~LaterTwin(i) /\ ~OnRight(i) => i \in IdSet
        /\ (/\ rSM = <<>>
            /\ NumLeft = 3
            /\ Sig(lSM[1]) = Sig(lSM[3])
            /\ Sig(lSM[2]) # Sig(lSM[1]))
           => lIds = <<1, 2>> /\ takenMeta = <<lSM[2], lSM[3]>>

C6_Witness ==
    /\ Succeeded
    /\ rSM = <<>>
    /\ NumLeft = 3
    /\ lSM[1].Tags.tag = "x" /\ lSM[2].Tags.tag = "y" /\ lSM[3].Tags.tag = "x"
    /\ matching = [On |-> TRUE, MatchingLabels |-> <<"tag">>]
    /\ out.seriesMeta = <<lSM[2], lSM[3]>>

\* every left series has a signature that a right series has (or there is none)
EmptyCase == \A i \in 0..(NumLeft - 1) : OnRight(i)

EmptyOutput ==
    /\ err = NoErr
    /\ out.present
    /\ Len(out.seriesMeta) = 0
    /\ builder.cols = <<NumSteps>>
    /\ builder.appended = <<>>

\* C7 (as claimed): with no left series, or every left signature on the right,
\* Process succeeds with no output series, columns for the left step count
\* and no value appended (stated for calls in which no collaborator failed).
C7_EmptyAlwaysSucceeds == pc = "done" /\ raised = NoRaise /\ EmptyCase => EmptyOutput

\* C7 (amended): the same, provided the step counts are equal and no
\* collaborator call returned an error; in every case no value is appended and
\* AddCols, when called, is given the left step count.
C7_EmptyOutput ==
    EmptyCase =>
        /\ builder.appended = <<>>
        /\ builder.cols \in {<<>>, <<NumSteps>>}
        /\ (pc = "done" /\ lBlock.stepCount = rBlock.stepCount /\ raised = NoRaise
               => EmptyOutput)

C7_Witness ==
    /\ Succeeded
    /\ NumLeft >= 2
    /\ NumSteps >= 1
    /\ EmptyCase
    /\ out.present
    /\ out.seriesMeta = <<>>

\* C8: an error of a collaborator ends Process at that stage with exactly that
\* error and no block, no later stage runs and Build is never called; a block
\* is returned only when every stage succeeded.
C8_ErrorPropagation ==
    /\ raised # NoRaise =>
          /\ pc = "done"
          /\ err = raised.error
          /\ out = NoBlock
          /\ builder.built = 0
          /\ raised.stage = "lhs.StepIter" =>
                lIter = NewIter /\ rIter = NewIter /\ builder = NewBuilder
          /\ raised.stage = "rhs.StepIter" =>
                rIter = NewIter /\ builder = NewBuilder /\ lIter.next = 0
          /\ raised.stage = "BlockBuilder" =>
                builder.cols = <<>> /\ builder.appended = <<>> /\ lIter.next = 0
          /\ raised.stage = "AddCols" =>
                Len(builder.cols) = 1 /\ builder.appended = <<>> /\ lIter.next = 0
          /\ raised.stage = "Current" =>
                /\ lIter.next = index + 1
                /\ ~lIter.exhausted
                /\ Len(builder.appended) = index * Len(lIds)
    /\ out.present =>
          /\ raised = NoRaise
          /\ err = NoErr
          /\ lIter.opened = 1 /\ rIter.opened = 1
          /\ builder.requested = 1
          /\ Len(builder.cols) = 1
          /\ lIter.exhausted
          /\ builder.built = 1

C8_Witness ==
    /\ raised.stage = "Current"
    /\ err = "errB"
    /\ index >= 1
    /\ builder.appended # <<>>

\* C9: two successful evaluations of the same inputs return the same block,
\* whatever order the signature map was ranged over in each.
C9_Determinism == Succeeded /\ prevOut.present => out = prevOut

C9_Witness ==
    /\ Succeeded
    /\ prevOut.present
    /\ Len(lIds) >= 3
    /\ NumSteps >= 1

\* C10 (as claimed): a successful Process has advanced both iterators over
\* all of their steps.
C10_BothConsumed ==
    Succeeded => rIter.pos = rBlock.stepCount /\ lIter.pos = lBlock.stepCount

\* C10 (amended): Process never advances the right iterator (it reads its step
\* count and series metadata only); a successful Process has advanced the left
\* iterator once per step and once more, when Next returned false; each
\* iterator is opened at most once.
C10_Consumption ==
    /\ rIter.next = 0 /\ ~rIter.exhausted /\ rIter.pos = 0
    /\ lIter.opened <= 1 /\ rIter.opened <= 1
    /\ lIter.pos <= NumSteps
    /\ Succeeded =>
          /\ lIter.exhausted
          /\ lIter.pos = NumSteps
          /\ lIter.next = NumSteps + 1
          /\ rIter.opened = 1

C10_Witness ==
    /\ Succeeded
    /\ NumSteps >= 2
    /\ Len(rSM) >= 1
    /\ lIter.exhausted
    /\ rIter.next = 0

====
